---- MODULE Spec2Model ----
(***************************************************************************)
(* Model of src/utils/token.rs of jwtvault: the two claim shapes           *)
(* (ClientClaims, ServerClaims), their constructors with the timestamp     *)
(* defaulting rules, and the encode/decode entry points built on the       *)
(* jsonwebtoken crate (RS256, Validation::new(Algorithm::RS256)).          *)
(*                                                                         *)
(* i64 and u64 values are 64-bit words written as four 16-bit limbs, most  *)
(* significant first, so that `iat + 86400` has the width it has in the    *)
(* program.  Option<T> is a sequence of length 0 (None) or 1 (Some(v)).    *)
(***************************************************************************)
EXTENDS Integers, Sequences, FiniteSets

VARIABLES clock, overflow_checks, token, issued, result

vars == <<clock, overflow_checks, token, issued, result>>

-----------------------------------------------------------------------------
(* Bounds of the model *)

\* first clock reading of a run, Unix seconds
StartTime == 1000

\* the clock is read up to this many seconds before and after the default
\* expiry of a token issued at StartTime
Window == 1

-----------------------------------------------------------------------------
(* 64-bit words *)

Limb == 65536

\* the non-negative integer n < 2^31 as a 64-bit word
W(n) == <<0, 0, n \div Limb, n % Limb>>

Zero == <<0, 0, 0, 0>>

I64Max == <<32767, 65535, 65535, 65535>>

I64Min == <<32768, 0, 0, 0>>

U64Max == <<65535, 65535, 65535, 65535>>

\* sign bit of a word read as i64
IsNeg(x) == x[1] >= 32768

\* x + y modulo 2^64
AddWrap(x, y) ==
    LET s4 == x[4] + y[4]
        s3 == x[3] + y[3] + (s4 \div Limb)
        s2 == x[2] + y[2] + (s3 \div Limb)
        s1 == x[1] + y[1] + (s2 \div Limb)
    IN  <<s1 % Limb, s2 % Limb, s3 % Limb, s4 % Limb>>

\* the i64 sum x + y leaves the range of i64
AddOverflows(x, y) ==
    /\ IsNeg(x) = IsNeg(y)
    /\ IsNeg(AddWrap(x, y)) # IsNeg(x)

\* x < y as unsigned 64-bit words
ULess(x, y) ==
    \E i \in 1..4 : x[i] < y[i] /\ \A j \in 1..(i - 1) : x[j] = y[j]

\* x < y as i64
SLess(x, y) ==
    IF IsNeg(x) # IsNeg(y) THEN IsNeg(x) ELSE ULess(x, y)

SLeq(x, y) == x = y \/ SLess(x, y)

\* -x modulo 2^64
NegWrap(x) == AddWrap([i \in 1..4 |-> (Limb - 1) - x[i]], W(1))

\* x - y modulo 2^64
SubWrap(x, y) == AddWrap(x, NegWrap(y))

-----------------------------------------------------------------------------
(* Option<T> *)

None == <<>>

Some(v) == <<v>>

IsSome(o) == Len(o) = 1

Unwrap(o) == o[1]

-----------------------------------------------------------------------------
(* Claims Model *)

\* 24 * 60 * 60
DAY == 86400

\* crate::utils::helpers::compute_timestamp_in_seconds
compute_timestamp_in_seconds == W(clock)

\* ClientClaims::new with the default of nbf taken from the clock, not from iat
ClientClaims_new_nbf_from_clock(sub, _buf, _ref, exp, nbf, iat) ==
    LET iat1 == IF IsSome(iat) THEN Unwrap(iat) ELSE compute_timestamp_in_seconds
        nbf1 == IF IsSome(nbf) THEN Unwrap(nbf) ELSE compute_timestamp_in_seconds
    IN  IF ~IsSome(exp) /\ overflow_checks /\ AddOverflows(iat1, W(DAY))
        THEN None
        ELSE LET exp1 == IF IsSome(exp) THEN Unwrap(exp) ELSE AddWrap(iat1, W(DAY))
             IN  Some([sub |-> sub, _buf |-> _buf, _ref |-> _ref,
                       exp |-> exp1, nbf |-> nbf1, iat |-> iat1])

\* ClientClaims::new; None is a panic of `iat + 86400` (overflow checks on),
\* with the checks off the sum wraps
ClientClaims_new(sub, _buf, _ref, exp, nbf, iat) ==
    LET iat1 == IF IsSome(iat) THEN Unwrap(iat) ELSE compute_timestamp_in_seconds
        nbf1 == IF IsSome(nbf) THEN Unwrap(nbf) ELSE iat1
    IN  IF ~IsSome(exp) /\ overflow_checks /\ AddOverflows(iat1, W(DAY))
        THEN None
        ELSE LET exp1 == IF IsSome(exp) THEN Unwrap(exp) ELSE AddWrap(iat1, W(DAY))
             IN  Some([sub |-> sub, _buf |-> _buf, _ref |-> _ref,
                       exp |-> exp1, nbf |-> nbf1, iat |-> iat1])

\* ServerClaims::new; None is a panic of `iat + 86400` (overflow checks on),
\* with the checks off the sum wraps
ServerClaims_new(sub, _client, _server, _ref, exp, nbf, iat) ==
    LET iat1 == IF IsSome(iat) THEN Unwrap(iat) ELSE compute_timestamp_in_seconds
        nbf1 == IF IsSome(nbf) THEN Unwrap(nbf) ELSE iat1
    IN  IF ~IsSome(exp) /\ overflow_checks /\ AddOverflows(iat1, W(DAY))
        THEN None
        ELSE LET exp1 == IF IsSome(exp) THEN Unwrap(exp) ELSE AddWrap(iat1, W(DAY))
             IN  Some([sub |-> sub, _client |-> _client, _server |-> _server,
                       _ref |-> _ref, exp |-> exp1, nbf |-> nbf1, iat |-> iat1])

-----------------------------------------------------------------------------
(* Serialisation of the claims (serde derive, serde_json)                  *)
(* A JSON number is <<"PosInt", u64>> or <<"NegInt", i64>>; a JSON value   *)
(* is <<"null">>, <<"num", n>> or <<"arr", values>>; an object is a        *)
(* function from field names to values.                                    *)

JNull == <<"null">>

ser_u8(b) == <<"num", <<"PosInt", W(b)>>>>

ser_u64(x) == <<"num", <<"PosInt", x>>>>

ser_i64(x) == <<"num", <<IF IsNeg(x) THEN "NegInt" ELSE "PosInt", x>>>>

ser_bytes(v) == <<"arr", [i \in 1..Len(v) |-> ser_u8(v[i])]>>

ser_opt_bytes(o) == IF IsSome(o) THEN ser_bytes(Unwrap(o)) ELSE JNull

\* the deserialisers return an Option: None is a serde_json error
de_u8(j) ==
    IF j[1] = "num" /\ j[2][1] = "PosInt" /\ ~ULess(W(255), j[2][2])
    THEN Some(j[2][2][4]) ELSE None

de_u64(j) ==
    IF j[1] = "num" /\ j[2][1] = "PosInt" THEN Some(j[2][2]) ELSE None

de_i64(j) ==
    IF j[1] # "num" THEN None
    ELSE IF j[2][1] = "NegInt" THEN Some(j[2][2])
    ELSE IF ULess(I64Max, j[2][2]) THEN None ELSE Some(j[2][2])

de_bytes(j) ==
    IF j[1] = "arr" /\ \A i \in 1..Len(j[2]) : IsSome(de_u8(j[2][i]))
    THEN Some([i \in 1..Len(j[2]) |-> Unwrap(de_u8(j[2][i]))])
    ELSE None

\* a required Vec<u8> field of the object
de_bytes_field(obj, name) ==
    IF name \in DOMAIN obj THEN de_bytes(obj[name]) ELSE None

\* a required u64 field of the object
de_u64_field(obj, name) ==
    IF name \in DOMAIN obj THEN de_u64(obj[name]) ELSE None

\* a required i64 field of the object
de_i64_field(obj, name) ==
    IF name \in DOMAIN obj THEN de_i64(obj[name]) ELSE None

\* an Option<Vec<u8>> field: a missing field and null both give Some(None)
de_opt_bytes_field(obj, name) ==
    IF name \notin DOMAIN obj \/ obj[name] = JNull THEN Some(None)
    ELSE IF IsSome(de_bytes(obj[name])) THEN Some(de_bytes(obj[name]))
    ELSE None

\* #[derive(Serialize)] for ClientClaims
ClientClaims_serialize(c) ==
    [sub |-> ser_bytes(c.sub), _buf |-> ser_opt_bytes(c._buf), _ref |-> ser_u64(c._ref),
     exp |-> ser_i64(c.exp), nbf |-> ser_i64(c.nbf), iat |-> ser_i64(c.iat)]

\* #[derive(Deserialize)] for ClientClaims
ClientClaims_deserialize(obj) ==
    LET sub  == de_bytes_field(obj, "sub")
        _buf == de_opt_bytes_field(obj, "_buf")
        _ref == de_u64_field(obj, "_ref")
        exp  == de_i64_field(obj, "exp")
        nbf  == de_i64_field(obj, "nbf")
        iat  == de_i64_field(obj, "iat")
    IN  IF /\ IsSome(sub) /\ IsSome(_buf) /\ IsSome(_ref)
           /\ IsSome(exp) /\ IsSome(nbf) /\ IsSome(iat)
        THEN Some([sub |-> Unwrap(sub), _buf |-> Unwrap(_buf), _ref |-> Unwrap(_ref),
                   exp |-> Unwrap(exp), nbf |-> Unwrap(nbf), iat |-> Unwrap(iat)])
        ELSE None

\* #[derive(Serialize)] for ServerClaims
ServerClaims_serialize(c) ==
    [sub |-> ser_bytes(c.sub), _client |-> ser_opt_bytes(c._client),
     _server |-> ser_opt_bytes(c._server), _ref |-> ser_u64(c._ref),
     exp |-> ser_i64(c.exp), nbf |-> ser_i64(c.nbf), iat |-> ser_i64(c.iat)]

\* #[derive(Deserialize)] for ServerClaims
ServerClaims_deserialize(obj) ==
    LET sub     == de_bytes_field(obj, "sub")
        _client == de_opt_bytes_field(obj, "_client")
        _server == de_opt_bytes_field(obj, "_server")
        _ref    == de_u64_field(obj, "_ref")
        exp     == de_i64_field(obj, "exp")
        nbf     == de_i64_field(obj, "nbf")
        iat     == de_i64_field(obj, "iat")
    IN  IF /\ IsSome(sub) /\ IsSome(_client) /\ IsSome(_server) /\ IsSome(_ref)
           /\ IsSome(exp) /\ IsSome(nbf) /\ IsSome(iat)
        THEN Some([sub |-> Unwrap(sub), _client |-> Unwrap(_client),
                   _server |-> Unwrap(_server), _ref |-> Unwrap(_ref),
                   exp |-> Unwrap(exp), nbf |-> Unwrap(nbf), iat |-> Unwrap(iat)])
        ELSE None

-----------------------------------------------------------------------------
(* Keys (crate::api::certificates) and errors (crate::errors::TokenErrors) *)

\* the key pairs of a run
KeyPairs == {1, 2}

\* PrivateKey: the key material of a pair, or bytes that are no RSA key
PrivateKeys ==
    {[pair |-> 1, wellformed |-> TRUE], [pair |-> 0, wellformed |-> FALSE]}

\* PublicKey: the verifying half of a pair
PublicKeys == [pair : KeyPairs]

Ok(v) == [tag |-> "Ok", val |-> v]

Err(e) == [tag |-> "Err", err |-> e]

Panic == [tag |-> "Panic"]

TokenEncodingFailed(context, detail) ==
    [kind |-> "TokenEncodingFailed", context |-> context, detail |-> detail]

TokenDecodingFailed(context, detail) ==
    [kind |-> "TokenDecodingFailed", context |-> context, detail |-> detail]

-----------------------------------------------------------------------------
(* jsonwebtoken as the four entry points call it.  The entry points set   *)
(* nothing on the Validation they build, so the crate's defaults decide:   *)
(* no leeway, exp checked (a token is expired when exp < now), nbf not     *)
(* checked.  The signature is verified before the payload is read.         *)

\* Utc::now().timestamp(), the crate's reading of the system clock
utc_now_timestamp == W(clock)

\* Header::new(alg)
Header_new(alg) == [alg |-> alg, typ |-> "JWT"]

\* Validation::new(alg): every other setting keeps the crate's default
Validation_new(alg) ==
    [leeway |-> Zero, validate_exp |-> TRUE, validate_nbf |-> FALSE,
     algorithms |-> {alg}]

\* the RS256 signature of header.payload under a private key
Sign(key, header, payload) == [signer |-> key.pair, msg |-> <<header, payload>>]

\* jsonwebtoken::encode(&header, &claims, key), the claims already serialised
jwt_encode(header, payload, key) ==
    IF ~key.wellformed THEN Err("InvalidRsaKey")
    ELSE Ok([header |-> header, payload |-> payload,
             signature |-> Sign(key, header, payload)])

\* the crate's check of the registered claims of a payload against the clock:
\* the name of the error, or "valid"
jwt_validate(payload, validation) ==
    LET now == utc_now_timestamp
    IN  IF /\ validation.validate_exp
           /\ \/ "exp" \notin DOMAIN payload
              \/ ~IsSome(de_i64(payload["exp"]))
              \/ SLess(Unwrap(de_i64(payload["exp"])), SubWrap(now, validation.leeway))
        THEN "ExpiredSignature"
        ELSE IF /\ validation.validate_nbf
                /\ \/ "nbf" \notin DOMAIN payload
                   \/ ~IsSome(de_i64(payload["nbf"]))
                   \/ SLess(AddWrap(now, validation.leeway), Unwrap(de_i64(payload["nbf"])))
        THEN "ImmatureSignature"
        ELSE "valid"

\* the payload read as the claims of a shape
deserialize(shape, payload) ==
    IF shape = "client" THEN ClientClaims_deserialize(payload)
                        ELSE ServerClaims_deserialize(payload)

\* jsonwebtoken::decode::<T>(token, key, &validation), T the claims of a shape
jwt_decode(shape, tok, key, validation) ==
    IF ~(tok.signature.signer = key.pair /\ tok.signature.msg = <<tok.header, tok.payload>>)
    THEN Err("InvalidSignature")
    ELSE IF tok.header.alg \notin validation.algorithms
    THEN Err("InvalidAlgorithm")
    ELSE IF ~IsSome(deserialize(shape, tok.payload))
    THEN Err("Json")
    ELSE IF jwt_validate(tok.payload, validation) # "valid"
    THEN Err(jwt_validate(tok.payload, validation))
    ELSE Ok(Unwrap(deserialize(shape, tok.payload)))

-----------------------------------------------------------------------------
(* Token Codec *)

\* encode_client_token building the claims without the caller's _buf
encode_client_token_no_buf(private_certificate, user_id, _buf, _ref, exp, nbf, iat) ==
    LET header == Header_new("RS256")
        claims == ClientClaims_new(user_id, None, _ref, exp, nbf, iat)
    IN  IF claims = None THEN Panic
        ELSE LET tok == jwt_encode(header, ClientClaims_serialize(Unwrap(claims)),
                                   private_certificate)
             IN  IF tok.tag = "Err"
                 THEN Err(TokenEncodingFailed("Unable to decode token", tok.err))
                 ELSE Ok(tok.val)

\* encode_client_token
encode_client_token(private_certificate, user_id, _buf, _ref, exp, nbf, iat) ==
    LET header == Header_new("RS256")
        claims == ClientClaims_new(user_id, _buf, _ref, exp, nbf, iat)
    IN  IF claims = None THEN Panic
        ELSE LET tok == jwt_encode(header, ClientClaims_serialize(Unwrap(claims)),
                                   private_certificate)
             IN  IF tok.tag = "Err"
                 THEN Err(TokenEncodingFailed("Unable to decode token", tok.err))
                 ELSE Ok(tok.val)

\* decode_client_token reading the payload without verifying the token
decode_client_token_unverified(public_certificate, tok) ==
    LET claims == ClientClaims_deserialize(tok.payload)
    IN  IF ~IsSome(claims)
        THEN Err(TokenDecodingFailed("Unable to decode token", "Json"))
        ELSE Ok(Unwrap(claims))

\* decode_client_token
decode_client_token(public_certificate, tok) ==
    LET validation == Validation_new("RS256")
        res == jwt_decode("client", tok, public_certificate, validation)
    IN  IF res.tag = "Err"
        THEN Err(TokenDecodingFailed("Unable to decode token", res.err))
        ELSE Ok(res.val)

\* encode_server_token
encode_server_token(private_certificate, user_id, _client, _server, _ref, exp, nbf, iat) ==
    LET header == Header_new("RS256")
        claims == ServerClaims_new(user_id, _client, _server, _ref, exp, nbf, iat)
    IN  IF claims = None THEN Panic
        ELSE LET tok == jwt_encode(header, ServerClaims_serialize(Unwrap(claims)),
                                   private_certificate)
             IN  IF tok.tag = "Err"
                 THEN Err(TokenEncodingFailed("Unable to encode token", tok.err))
                 ELSE Ok(tok.val)

\* decode_server_token
decode_server_token(public_certificate, tok) ==
    LET validation == Validation_new("RS256")
        res == jwt_decode("server", tok, public_certificate, validation)
    IN  IF res.tag = "Err"
        THEN Err(TokenDecodingFailed("Unable to decode token", res.err))
        ELSE Ok(res.val)

-----------------------------------------------------------------------------
(* The inputs of a run *)

\* the subject: the byte 'u' and the largest byte
Subs == {<<117, 255>>}

\* the optional payload fields: absent, and present with no byte
OptBytes == {None, Some(<<>>)}

\* the reference numbers
Refs == {U64Max}

\* the clock readings of a run
ClockPoints == {StartTime} \cup ((StartTime + DAY - Window) .. (StartTime + DAY + Window))

\* the largest iat whose default expiry is an i64, and the next one
LastIat == SubWrap(I64Max, W(DAY))

FirstOverflowingIat == AddWrap(LastIat, W(1))

\* the timestamp overrides given to the constructors
ExpArgs == {None, Some(W(StartTime + 1)), Some(I64Min)}

NbfArgs == {None, Some(W(StartTime + DAY)), Some(I64Max)}

IatArgs == {None, Some(W(StartTime + 1)), Some(LastIat), Some(FirstOverflowingIat)}

\* the timestamp overrides given to the encode entry points
TokenExpArgs == {None, Some(W(StartTime + DAY))}

TokenNbfArgs == {None, Some(W(StartTime + DAY))}

TokenIatArgs == {None, Some(I64Min), Some(I64Max)}

-----------------------------------------------------------------------------
(* The state machine: a caller that constructs claims, issues tokens and   *)
(* verifies the token it holds while the clock advances.                   *)
(*   token    the token the caller holds, an Option                        *)
(*   issued   the call that issued it: the shape, the overrides, the key   *)
(*            pair and the claims value that was signed                    *)
(*   result   the last call, the clock reading it ran at and what it       *)
(*            returned                                                     *)

NoResult ==
    [op |-> "none", shape |-> "none", at |-> StartTime, exp |-> None, nbf |-> None,
     iat |-> None, key |-> None, out |-> Panic]

Init ==
    /\ clock = StartTime
    /\ overflow_checks \in BOOLEAN
    /\ token = None
    /\ issued = None
    /\ result = NoResult

\* the system clock advances
Tick ==
    /\ \E t \in ClockPoints : t > clock /\ clock' = t
    /\ UNCHANGED <<overflow_checks, token, issued, result>>

\* a call of ClientClaims::new
NewClient ==
    \E sub \in Subs, _buf \in OptBytes, _ref \in Refs,
       exp \in ExpArgs, nbf \in NbfArgs, iat \in IatArgs :
        LET c == ClientClaims_new(sub, _buf, _ref, exp, nbf, iat)
        IN  /\ result' = [op |-> "new", shape |-> "client", at |-> clock, exp |-> exp, nbf |-> nbf,
                          iat |-> iat, key |-> None,
                          out |-> IF c = None THEN Panic ELSE Ok(Unwrap(c))]
            /\ UNCHANGED <<clock, overflow_checks, token, issued>>

\* a call of ServerClaims::new
NewServer ==
    \E sub \in Subs, _client \in OptBytes, _server \in OptBytes, _ref \in Refs,
       exp \in ExpArgs, nbf \in NbfArgs, iat \in IatArgs :
        LET c == ServerClaims_new(sub, _client, _server, _ref, exp, nbf, iat)
        IN  /\ result' = [op |-> "new", shape |-> "server", at |-> clock, exp |-> exp, nbf |-> nbf,
                          iat |-> iat, key |-> None,
                          out |-> IF c = None THEN Panic ELSE Ok(Unwrap(c))]
            /\ UNCHANGED <<clock, overflow_checks, token, issued>>

\* what the caller keeps of a call of an encode entry point: its result and,
\* when there is one, the token with the claims it was issued for
Issue(shape, key, exp, nbf, iat, claims, out) ==
    /\ result' = [op |-> "encode", shape |-> shape, at |-> clock, exp |-> None,
                  nbf |-> None, iat |-> None, key |-> Some(key), out |-> out]
    /\ IF out.tag = "Ok"
       THEN /\ token' = Some(out.val)
            /\ issued' = Some([shape |-> shape, claims |-> Unwrap(claims),
                               pair |-> key.pair,
                               exp |-> exp, nbf |-> nbf, iat |-> iat])
       ELSE UNCHANGED <<token, issued>>
    /\ UNCHANGED <<clock, overflow_checks>>

\* a call of encode_client_token
EncodeClient ==
    \E key \in PrivateKeys, sub \in Subs, _buf \in OptBytes, _ref \in Refs,
       exp \in TokenExpArgs, nbf \in TokenNbfArgs, iat \in TokenIatArgs :
        Issue("client", key, exp, nbf, iat,
              ClientClaims_new(sub, _buf, _ref, exp, nbf, iat),
              encode_client_token(key, sub, _buf, _ref, exp, nbf, iat))

\* a call of encode_server_token
EncodeServer ==
    \E key \in PrivateKeys, sub \in Subs, _client \in OptBytes,
       _server \in OptBytes, _ref \in Refs,
       exp \in TokenExpArgs, nbf \in TokenNbfArgs, iat \in TokenIatArgs :
        Issue("server", key, exp, nbf, iat,
              ServerClaims_new(sub, _client, _server, _ref, exp, nbf, iat),
              encode_server_token(key, sub, _client, _server, _ref, exp, nbf, iat))

\* a call of decode_client_token on the token held
DecodeClient ==
    /\ IsSome(token)
    /\ \E key \in PublicKeys :
        result' = [op |-> "decode", shape |-> "client", at |-> clock, exp |-> None, nbf |-> None,
                   iat |-> None, key |-> Some(key),
                   out |-> decode_client_token(key, Unwrap(token))]
    /\ UNCHANGED <<clock, overflow_checks, token, issued>>

\* a call of decode_server_token on the token held
DecodeServer ==
    /\ IsSome(token)
    /\ \E key \in PublicKeys :
        result' = [op |-> "decode", shape |-> "server", at |-> clock, exp |-> None, nbf |-> None,
                   iat |-> None, key |-> Some(key),
                   out |-> decode_server_token(key, Unwrap(token))]
    /\ UNCHANGED <<clock, overflow_checks, token, issued>>

\* the token codec
Next ==
    \/ Tick
    \/ EncodeClient
    \/ EncodeServer
    \/ DecodeClient
    \/ DecodeServer

Spec == Init /\ [][Next]_vars

\* the claims model on its own
NextClaims ==
    \/ Tick
    \/ NewClient
    \/ NewServer

SpecClaims == Init /\ [][NextClaims]_vars

-----------------------------------------------------------------------------
(* Properties *)

\* y - x = d over the integers, for i64 x, y and 0 <= d < 2^31
ExactlyAfter(x, d, y) == y = AddWrap(x, W(d)) /\ ~AddOverflows(x, W(d))

\* the last call was a decode of the held token
Decoded == result.op = "decode"

\* the last call was a decode with the public key of the pair that signed the
\* held token, into the shape the token was issued for
DecodedByOwner ==
    /\ Decoded
    /\ Unwrap(result.key).pair = Unwrap(issued).pair
    /\ result.shape = Unwrap(issued).shape

DecodeFailed ==
    /\ result.out.tag = "Err"
    /\ result.out.err.kind = "TokenDecodingFailed"

\* the last call was a constructor
Constructed == result.op = "new"

\* C1: decoding, with the public key of the signing pair and into the shape
\* that was encoded, a token whose expiry has not passed succeeds and returns
\* a claims value equal in every field to the one that was encoded.
RoundTrip ==
    (DecodedByOwner /\ SLeq(W(result.at), Unwrap(issued).claims.exp))
        => result.out = Ok(Unwrap(issued).claims)

\* a server token with a present but empty _client, an absent _server and a
\* negative iat came back equal
RoundTripWitness ==
    /\ DecodedByOwner
    /\ result.shape = "server"
    /\ result.out.tag = "Ok"
    /\ result.out.val = Unwrap(issued).claims
    /\ result.out.val._client = Some(<<>>)
    /\ result.out.val._server = None
    /\ result.out.val._ref = U64Max
    /\ IsNeg(result.out.val.iat)

\* C2: every construction without an explicit expiry gives claims with
\* exp - iat = 86400 exactly.
DefaultExpiryLaw ==
    (Constructed /\ result.exp = None /\ result.out.tag = "Ok")
        => ExactlyAfter(result.out.val.iat, DAY, result.out.val.exp)

\* C3: every construction without an explicit not-before gives claims with
\* nbf = iat, iat being the supplied one or else the clock reading.
DefaultNotBeforeLaw ==
    (Constructed /\ result.nbf = None /\ result.out.tag = "Ok")
        => /\ result.out.val.nbf = result.out.val.iat
           /\ result.out.val.nbf =
                  IF IsSome(result.iat) THEN Unwrap(result.iat) ELSE W(result.at)

\* nbf was omitted while iat and exp were supplied, iat away from the clock
DefaultNotBeforeWitness ==
    /\ Constructed
    /\ result.nbf = None
    /\ result.iat = Some(LastIat)
    /\ result.exp = Some(I64Min)
    /\ result.out.tag = "Ok"
    /\ result.out.val.nbf = LastIat
    /\ result.at > StartTime

\* C4: each of iat, exp and nbf that is supplied appears unchanged in the
\* claims, and each omitted one gets its default from the iat of the claims:
\* iat the clock reading, exp = iat + 86400, nbf = iat.
OverridePassthrough ==
    (Constructed /\ result.out.tag = "Ok")
        => LET c == result.out.val
           IN  /\ c.iat = IF IsSome(result.iat) THEN Unwrap(result.iat) ELSE W(result.at)
               /\ IF IsSome(result.exp) THEN c.exp = Unwrap(result.exp)
                                       ELSE ExactlyAfter(c.iat, DAY, c.exp)
               /\ c.nbf = IF IsSome(result.nbf) THEN Unwrap(result.nbf) ELSE c.iat

\* C5: a decode at a clock reading at or after the token's exp fails with a
\* decode failure, whatever the key.
ExpiryRejection ==
    (Decoded /\ SLeq(Unwrap(issued).claims.exp, W(result.at))) => DecodeFailed

\* C6: a decode at a clock reading before the token's nbf fails with a decode
\* failure.
NotYetValidRejection ==
    (Decoded /\ SLess(W(result.at), Unwrap(issued).claims.nbf)) => DecodeFailed

\* C7: a decode with a public key of another pair than the one that signed
\* the token fails with a decode failure, whatever the claims and the clock.
SignatureRejection ==
    (Decoded /\ Unwrap(result.key).pair # Unwrap(issued).pair) => DecodeFailed

\* a token that is neither expired nor early was refused for its key alone
SignatureRejectionWitness ==
    /\ Decoded
    /\ Unwrap(result.key).pair # Unwrap(issued).pair
    /\ result.shape = Unwrap(issued).shape
    /\ SLess(W(result.at), Unwrap(issued).claims.exp)
    /\ SLeq(Unwrap(issued).claims.nbf, W(result.at))
    /\ DecodeFailed
    /\ result.out.err.detail = "InvalidSignature"

\* C8: a failed encode returns an encode failure whose context names the
\* encode operation, a failed decode a decode failure whose context names the
\* decode operation, and both carry the backend's diagnostic as the detail.
ErrorContext ==
    result.out.tag = "Err"
        => /\ result.op = "encode"
                => /\ result.out.err.kind = "TokenEncodingFailed"
                   /\ result.out.err.context = "Unable to encode token"
                   /\ result.out.err.detail = "InvalidRsaKey"
           /\ result.op = "decode"
                => /\ result.out.err.kind = "TokenDecodingFailed"
                   /\ result.out.err.context = "Unable to decode token"
                   /\ result.out.err.detail \in
                          {"InvalidSignature", "InvalidAlgorithm", "Json",
                           "ExpiredSignature", "ImmatureSignature"}

\* C9: every construction returns a claims value, and without an explicit
\* expiry its exp is iat + 86400 over the integers.
ConstructionCannotFail ==
    Constructed
        => /\ result.out.tag = "Ok"
           /\ result.exp = None
                => ExactlyAfter(result.out.val.iat, DAY, result.out.val.exp)

\* C10: a token issued without overrides at clock reading t decodes from t
\* up to t + 86400 - 1 and is refused from t + 86400 on.
DefaultValidityWindow ==
    (/\ DecodedByOwner
     /\ Unwrap(issued).exp = None
     /\ Unwrap(issued).nbf = None
     /\ Unwrap(issued).iat = None)
        => LET t == Unwrap(issued).claims.iat
           IN  IF SLess(W(result.at), AddWrap(t, W(DAY)))
               THEN result.out = Ok(Unwrap(issued).claims)
               ELSE DecodeFailed

====
